---- MODULE Spec2Model ----
(***************************************************************************)
(* Model of matscipy/checkpoint.py: the Checkpoint class (region tracker,  *)
(* record encoding, load / flush / save against an ase.db store) and the   *)
(* wrapper Checkpoint.__call__.                                            *)
(***************************************************************************)
EXTENDS Integers, Sequences, FiniteSets, Bags, TLC

\* ------------------------------------------------------------------ bounds
\* Checkpoint._max_id, scaled down so that the sibling overflow is reached.
max_id == 3
\* Longest checkpoint_id list the model lets load build.
MaxDepth == 3
\* Number of API calls and restarts explored in a behaviour of Spec.
MaxOps == 7

\* ------------------------------------------------------------------ values
\* Every Python value is a record of one shape; kind tells them apart.
Atoms(sym, calc) == [kind |-> "atoms", sym |-> sym, calc |-> calc, num |-> 0]
Plain(sym) == [kind |-> "plain", sym |-> sym, calc |-> "", num |-> 0]
IntV(n) == [kind |-> "int", sym |-> "", calc |-> "", num |-> n]
None == [kind |-> "none", sym |-> "", calc |-> "", num |-> 0]

\* isinstance(v, ase.Atoms)
IsAtoms(v) == v.kind = "atoms"

\* '{0}{1}'.format(self._value_prefix, i) for i = 0, 1, ...
ValueKeys == <<"_values_0", "_values_1", "_values_2", "_values_3">>
ValueKey(i) == ValueKeys[i + 1]

\* The empty dict / empty kwargs.
EmptyDict == [k \in {} |-> None]

\* dict without one key (del d[k], ignoring a missing key).
DictDel(d, key) == [k \in (DOMAIN d) \ {key} |-> d[k]]

\* d.update(e)
DictUpdate(d, e) ==
  [k \in (DOMAIN d) \cup (DOMAIN e) |-> IF k \in DOMAIN e THEN e[k] ELSE d[k]]

\* ------------------------------------------------------------------ tracker
Last(s) == s[Len(s)]
Front(s) == SubSeq(s, 1, Len(s) - 1)

\* Mutant: the assertion of line 107 is <= instead of <.
IncreaseLate(c, f) ==
  IF f
  THEN [cid |-> Append(c, 1), inreg |-> TRUE, ok |-> TRUE]
  ELSE IF c = <<>>
       THEN [cid |-> c, inreg |-> f, ok |-> FALSE]
       ELSE LET c2 == [c EXCEPT ![Len(c)] = c[Len(c)] + 1]
            IN  IF c2[Len(c2)] <= max_id
                THEN [cid |-> c2, inreg |-> TRUE, ok |-> TRUE]
                ELSE [cid |-> c2, inreg |-> f, ok |-> FALSE]

\* _increase_checkpoint_id: the new checkpoint_id, the new flag and whether
\* the assertion of line 107 held.  The increment of line 106 happens before
\* the assertion; line 111 is only reached when it holds.
IncreaseCheckpointId(c, f) ==
  IF f
  THEN [cid |-> Append(c, 1), inreg |-> TRUE, ok |-> TRUE]
  ELSE IF c = <<>>
       THEN [cid |-> c, inreg |-> f, ok |-> FALSE]
       ELSE LET c2 == [c EXCEPT ![Len(c)] = c[Len(c)] + 1]
            IN  IF Last(c2) < max_id
                THEN [cid |-> c2, inreg |-> TRUE, ok |-> TRUE]
                ELSE [cid |-> c2, inreg |-> f, ok |-> FALSE]

\* Mutant: the assertions of lines 118 and 120 are dropped.
DecreaseNoAssert(c, f) ==
  [cid |-> IF ~f /\ c # <<>> THEN SubSeq(c, 1, Len(c) - 1) ELSE c,
   inreg |-> FALSE, ok |-> TRUE]

\* Mutant: the nested level is popped whatever the flag says.
DecreaseAlwaysPop(c, f) ==
  LET c2 == IF Len(c) > 1 THEN SubSeq(c, 1, Len(c) - 1) ELSE c
  IN  IF c2 = <<>> THEN [cid |-> c2, inreg |-> FALSE, ok |-> FALSE]
      ELSE [cid |-> c2, inreg |-> FALSE, ok |-> c2[Len(c2)] >= 1]

\* Mutant: the nested level is never popped.
DecreaseNoPop(c, f) ==
  IF c = <<>> THEN [cid |-> c, inreg |-> FALSE, ok |-> FALSE]
  ELSE [cid |-> c, inreg |-> FALSE, ok |-> c[Len(c)] >= 1]

\* _decrease_checkpoint_id: the pop of line 117 happens before the assertion
\* of line 118, the flag is cleared (119) before the assertion of line 120.
DecreaseCheckpointId(c, f) ==
  LET c2 == IF ~f /\ c # <<>> THEN Front(c) ELSE c
  IN  IF ~f /\ Len(c2) < 1
      THEN [cid |-> c2, inreg |-> f, ok |-> FALSE]
      ELSE IF c2 = <<>>
           THEN [cid |-> c2, inreg |-> FALSE, ok |-> FALSE]
           ELSE [cid |-> c2, inreg |-> FALSE, ok |-> Last(c2) >= 1]

\* m ** e
RECURSIVE Pow(_, _)
Pow(m, e) == IF e = 0 THEN 1 ELSE m * Pow(m, e - 1)

\* reduce(a+b, map(c if i == 0 else m**i * c, enumerate(c)))
RECURSIVE MangledSum(_, _, _)
MangledSum(c, m, n) ==
  IF n = 0 THEN 0
  ELSE MangledSum(c, m, n - 1) + (IF n = 1 THEN c[1] ELSE Pow(m, n - 1) * c[n])

\* Mutant: the exponent of every weight is one too low.
LinearKeyLowExp(c, m) ==
  IF Len(c) <= 1 THEN MangledSum(c, m, Len(c))
  ELSE c[1] + MangledSum(Tail(c), m, Len(c) - 1)

LinearKey(c, m) == MangledSum(c, m, Len(c))

\* Mutant: the elements are summed without their weights.
MangledNoWeight(c) == MangledSum(c, 1, Len(c))

\* _mangled_checkpoint_id
MangledCheckpointId(c) == LinearKey(c, max_id)

\* ------------------------------------------------------------------ codec
\* _flush, lines 175-195: the row's atoms and data, or the RuntimeError.
Encode(args, kwargs) ==
  LET n == Len(args)
      data0 == [k \in {ValueKey(i) : i \in 0..(n - 1)} |->
                  args[(CHOOSE i \in 0..(n - 1) : ValueKey(i) = k) + 1]]
      pos == {i \in 0..(n - 1) : IsAtoms(args[i + 1])}
      found == pos # {}
      first == CHOOSE i \in pos : \A j \in pos : i <= j
      atomsi == IF found THEN first ELSE -1
      named == "atoms" \in DOMAIN kwargs
      atoms == IF found THEN args[first + 1]
               ELSE IF named THEN kwargs["atoms"] ELSE None
      data1 == IF found THEN DictDel(data0, ValueKey(first)) ELSE data0
      data2 == DictUpdate(data1, [k \in {"checkpoint_atoms_args_index"} |-> IntV(atomsi)])
      data3 == DictUpdate(data2, DictDel(kwargs, "atoms"))
  IN  [ok |-> found \/ named, atoms |-> atoms, data |-> data3]

\* dbentry.toatoms(): the stored atoms come back without a calculator.
ToAtoms(row) == [row.atoms EXCEPT !.calc = ""]

\* newatoms.set_calculator(atoms.get_calculator()) when atoms is not None
Reattach(newatoms, ctx) ==
  IF ctx # None THEN [newatoms EXCEPT !.calc = ctx.calc] ELSE newatoms

HasValue(data, i) == i < Len(ValueKeys) /\ ValueKey(i) \in DOMAIN data

\* load, lines 151-164: the list retvals built from index i on.
RECURSIVE DecodeFrom(_, _, _)
DecodeFrom(row, ctx, i) ==
  LET atomsi == row.data["checkpoint_atoms_args_index"].num
  IN  IF i = atomsi
      THEN <<Reattach(ToAtoms(row), ctx)>> \o DecodeFrom(row, ctx, i + 1)
      ELSE IF HasValue(row.data, i)
           THEN <<row.data[ValueKey(i)]>> \o DecodeFrom(row, ctx, i + 1)
           ELSE <<>>

\* Mutant: the walk starts at index 1.
DecodeSkipFirst(row, ctx) == DecodeFrom(row, ctx, 1)

Decode(row, ctx) == DecodeFrom(row, ctx, 0)

\* load, lines 169-172: one value alone, several as a tuple.
ReturnShape(retvals) == [single |-> Len(retvals) = 1, vals |-> retvals]

NoReturn == [single |-> FALSE, vals |-> <<>>]

\* ------------------------------------------------------------------ store
\* The ase.db database: a bag of rows, each with the checkpoint_id key-value
\* pair, the atoms and the data dict.
Rows(db, k) == {r \in BagToSet(db) : r.checkpoint_id = k}

RECURSIVE SumCopies(_, _)
SumCopies(db, S) ==
  IF S = {} THEN 0
  ELSE LET r == CHOOSE x \in S : TRUE
       IN  CopiesIn(r, db) + SumCopies(db, S \ {r})

\* number of rows db.select(checkpoint_id=k) yields
NumRows(db, k) == SumCopies(db, Rows(db, k))

\* db.get(checkpoint_id=k) when exactly one row matches
GetRow(db, k) == CHOOSE r \in Rows(db, k) : TRUE

\* del db[dbentry.id]
DbDelete(db, row) == db (-) SetToBag({row})

\* db.write(atoms, checkpoint_id=k, data=data)
DbWrite(db, atoms, k, data) ==
  db (+) SetToBag({[checkpoint_id |-> k, atoms |-> atoms, data |-> data]})

\* Mutant: the new data are merged into the row found at the key.
FlushStoreMerge(db, k, enc) ==
  IF NumRows(db, k) = 0 THEN DbWrite(db, enc.atoms, k, enc.data)
  ELSE DbWrite(DbDelete(db, GetRow(db, k)), enc.atoms, k,
               DictUpdate(GetRow(db, k).data, enc.data))

\* Mutant: the row found at the key is not deleted.
FlushStoreNoDelete(db, k, enc) == DbWrite(db, enc.atoms, k, enc.data)

\* _flush, lines 197-204: delete the row found at the key, then write.
FlushStore(db, k, enc) ==
  LET db1 == IF NumRows(db, k) = 0 THEN db ELSE DbDelete(db, GetRow(db, k))
  IN  DbWrite(db1, enc.atoms, k, enc.data)

\* ------------------------------------------------------------------ inputs
\* The atoms argument of load: none, or an Atoms carrying a live calculator.
LoadContexts == {None, Atoms("ctx", "emt")}

\* Arguments of flush and save: payload alone, payload between two values
\* with an extra named field, payload by name, and no payload at all.
WriteInputs ==
  { [args |-> <<Atoms("Si", "lj")>>, kwargs |-> EmptyDict],
    [args |-> <<Plain("x"), Atoms("Si", "lj"), Plain("y")>>,
     kwargs |-> [checkpoint_func_name |-> Plain("f")]],
    [args |-> <<Plain("y")>>, kwargs |-> [atoms |-> Atoms("Cu", "")]],
    [args |-> <<Plain("x")>>, kwargs |-> EmptyDict] }

\* ------------------------------------------------------------------ state
VARIABLES
  checkpoint_id,            \* self.checkpoint_id
  in_checkpointed_region,   \* self.in_checkpointed_region
  db,                       \* the rows of the database file self.db
  status,                   \* "run", or "dead" once an error has propagated
  last,                     \* the most recent call of the session and its outcome
  open,                     \* the scopes entered by a load miss and not yet saved,
                            \* marked once a flush makes their nesting ambiguous
  written,                  \* per key, the arguments of the call that wrote its row
  nops,                     \* calls and restarts so far
  prog,                     \* the program run by every session
  pstack,                   \* the program's stack of regions being executed
  invoked,                  \* per region, the calls of its function this session
  persisted,                \* per region, the values its last write persisted and
                            \* whether its function returned them as a tuple
  cids,                     \* two checkpoint_id lists whose linear ids are compared
  mangled                   \* their linear ids and the _max_id they were computed with

progvars == <<prog, pstack, invoked, persisted>>

keyvars == <<cids, mangled>>

\* No linear id computed yet.
NotMangled == [max |-> 0, ids |-> <<>>]

vars == <<checkpoint_id, in_checkpointed_region, db, status, last, open, written,
          nops, prog, pstack, invoked, persisted, cids, mangled>>

NoCall ==
  [op |-> "init", outcome |-> "none", path |-> <<>>, key |-> -1,
   args |-> <<>>, kwargs |-> EmptyDict, ctx |-> None, ret |-> NoReturn,
   nflush |-> 0, prev |-> [op |-> "init", outcome |-> "none", key |-> -1]]

\* What a call remembers of the call before it.
Summary(call) == [op |-> call.op, outcome |-> call.outcome, key |-> call.key]

\* The enclosing scope of the session itself.
BaseFrame == [path |-> <<>>, kids |-> 0, lastkid |-> <<>>, flushed |-> FALSE]

Top(stack) == stack[Len(stack)]

\* Checkpoint.__init__ against a database file that does not exist yet.
Init ==
  /\ checkpoint_id = <<0>>
  /\ in_checkpointed_region = FALSE
  /\ db = EmptyBag
  /\ status = "run"
  /\ last = NoCall
  /\ open = <<BaseFrame>>
  /\ written = EmptyDict
  /\ nops = 0
  /\ prog = EmptyDict
  /\ pstack = <<>>
  /\ invoked = EmptyDict
  /\ persisted = EmptyDict
  /\ cids = <<>>
  /\ mangled = NotMangled

\* load: what db.get(checkpoint_id=key) does after _increase_checkpoint_id.
LoadOutcome(inc, n, dec) ==
  IF ~inc.ok THEN "overflow"
  ELSE IF n = 0 THEN "miss"
  ELSE IF n > 1 THEN "dberror"
  ELSE IF ~dec.ok THEN "underflow"
  ELSE "hit"

\* Mutant: a restored region is left open.
LoadTrackerNoExit(inc, dec, outcome) == inc

\* Mutant: the region is retracted on a miss too.
LoadTrackerExitOnMiss(inc, dec, outcome) ==
  IF outcome \in {"hit", "underflow", "miss"} THEN dec ELSE inc

\* load: the tracker it leaves; _decrease_checkpoint_id (line 168) is only
\* reached when the row was found.
LoadTracker(inc, dec, outcome) ==
  IF outcome \in {"hit", "underflow"} THEN dec ELSE inc

\* Checkpoint.load(atoms=ctx)
Load(ctx) ==
  LET inc == IncreaseCheckpointId(checkpoint_id, in_checkpointed_region)
      key == MangledCheckpointId(inc.cid)
      n == NumRows(db, key)
      row == GetRow(db, key)
      dec == DecreaseCheckpointId(inc.cid, inc.inreg)
      outcome == LoadOutcome(inc, n, dec)
      tracker == LoadTracker(inc, dec, outcome)
      entered == [Top(open) EXCEPT !.kids = @ + 1, !.lastkid = inc.cid]
      frame == [path |-> inc.cid, kids |-> 0, lastkid |-> <<>>, flushed |-> FALSE]
  IN  /\ status = "run"
      /\ in_checkpointed_region => Len(checkpoint_id) < MaxDepth
      /\ checkpoint_id' = tracker.cid
      /\ in_checkpointed_region' = tracker.inreg
      /\ db' = db
      /\ status' = IF outcome \in {"hit", "miss"} THEN "run" ELSE "dead"
      /\ last' = [op |-> "load", outcome |-> outcome, path |-> inc.cid,
                  key |-> IF inc.ok THEN key ELSE -1,
                  args |-> <<>>, kwargs |-> EmptyDict, ctx |-> ctx,
                  ret |-> IF outcome = "hit" THEN ReturnShape(Decode(row, ctx))
                          ELSE NoReturn,
                  nflush |-> 0, prev |-> Summary(last)]
      /\ open' = IF outcome = "hit" THEN [open EXCEPT ![Len(open)] = entered]
                 ELSE IF outcome = "miss"
                      THEN Append([open EXCEPT ![Len(open)] = entered], frame)
                      ELSE open
      /\ written' = written

\* Mutant: the row found at the key is deleted before the payload is looked
\* for.
FlushAtDeleteFirst(c, args, kwargs) ==
  LET enc == Encode(args, kwargs)
      key == MangledCheckpointId(c)
      db1 == IF NumRows(db, key) = 0 THEN db ELSE DbDelete(db, GetRow(db, key))
  IN  IF ~enc.ok THEN [outcome |-> "nopayload", db |-> db1, key |-> key]
      ELSE IF NumRows(db, key) > 1 THEN [outcome |-> "dberror", db |-> db, key |-> key]
      ELSE [outcome |-> "ok", db |-> FlushStore(db, key, enc), key |-> key]

\* Checkpoint._flush(*args, **kwargs) with checkpoint_id = c: the outcome and
\* the database it leaves.
FlushAt(c, args, kwargs) ==
  LET enc == Encode(args, kwargs)
      key == MangledCheckpointId(c)
  IN  IF ~enc.ok THEN [outcome |-> "nopayload", db |-> db, key |-> key]
      ELSE IF NumRows(db, key) > 1 THEN [outcome |-> "dberror", db |-> db, key |-> key]
      ELSE [outcome |-> "ok", db |-> FlushStore(db, key, enc), key |-> key]

\* The note kept of a successful write at key: the call, its arguments and
\* the fields of the row it replaced.
Note(op, key, args, kwargs, nflush) ==
  [k \in (DOMAIN written) \cup {key} |->
     IF k = key
     THEN [op |-> op, args |-> args, kwargs |-> kwargs, nflush |-> nflush,
           prior |-> IF NumRows(db, key) = 1 THEN DOMAIN GetRow(db, key).data ELSE {}]
     ELSE written[k]]

\* Mutant: flush closes the region as save does.
FlushTrackerExit(c, f) ==
  IF ~f /\ Len(c) > 1
  THEN [cid |-> SubSeq(c, 1, Len(c) - 1), inreg |-> FALSE, ok |-> TRUE]
  ELSE [cid |-> c, inreg |-> FALSE, ok |-> TRUE]

\* Mutant: flush moves on to the next checkpoint id.
FlushTrackerNext(c, f) ==
  [cid |-> [i \in 1..Len(c) |-> IF i = Len(c) THEN c[i] + 1 ELSE c[i]],
   inreg |-> FALSE, ok |-> TRUE]

\* flush, line 220: the tracker before _flush runs.
FlushTracker(c, f) == [cid |-> c, inreg |-> FALSE, ok |-> TRUE]

\* Checkpoint.flush(*args, **kwargs)
Flush(args, kwargs) ==
  LET tracker == FlushTracker(checkpoint_id, in_checkpointed_region)
      w == FlushAt(tracker.cid, args, kwargs)
      nflush == IF last.op = "flush" THEN last.nflush + 1 ELSE 1
  IN  /\ status = "run"
      /\ checkpoint_id' = tracker.cid
      /\ in_checkpointed_region' = tracker.inreg
      /\ db' = w.db
      /\ status' = IF w.outcome = "ok" THEN "run" ELSE "dead"
      /\ last' = [op |-> "flush", outcome |-> w.outcome, path |-> tracker.cid,
                  key |-> w.key, args |-> args, kwargs |-> kwargs, ctx |-> None,
                  ret |-> NoReturn, nflush |-> nflush, prev |-> Summary(last)]
      /\ open' = [i \in 1..Len(open) |-> [open[i] EXCEPT !.flushed = TRUE]]
      /\ written' = IF w.outcome = "ok" THEN Note("flush", w.key, args, kwargs, nflush)
                    ELSE written

\* Checkpoint.save(*args, **kwargs)
Save(args, kwargs) ==
  LET dec == DecreaseCheckpointId(checkpoint_id, in_checkpointed_region)
      w == FlushAt(dec.cid, args, kwargs)
      outcome == IF ~dec.ok THEN "underflow" ELSE w.outcome
  IN  /\ status = "run"
      /\ checkpoint_id' = dec.cid
      /\ in_checkpointed_region' = dec.inreg
      /\ db' = IF dec.ok THEN w.db ELSE db
      /\ status' = IF outcome = "ok" THEN "run" ELSE "dead"
      /\ last' = [op |-> "save", outcome |-> outcome, path |-> dec.cid,
                  key |-> IF dec.ok THEN w.key ELSE -1,
                  args |-> args, kwargs |-> kwargs, ctx |-> None, ret |-> NoReturn,
                  nflush |-> 0, prev |-> Summary(last)]
      /\ open' = IF outcome = "ok" /\ Len(open) > 1 THEN Front(open) ELSE open
      /\ written' = IF outcome = "ok" THEN Note("save", w.key, args, kwargs, 0)
                    ELSE written

\* The process ends (killed, finished or aborted by an error) and a new one
\* constructs a Checkpoint on the same database file.
NewSession ==
  /\ checkpoint_id' = <<0>>
  /\ in_checkpointed_region' = FALSE
  /\ db' = db
  /\ status' = "run"
  /\ last' = NoCall
  /\ open' = <<BaseFrame>>
  /\ written' = written

\* ------------------------------------------------------------------ Spec
\* Any sequence of load, flush and save calls, and restarts.
CallLoad ==
  /\ nops < MaxOps
  /\ \E ctx \in LoadContexts : Load(ctx)
  /\ nops' = nops + 1
  /\ UNCHANGED <<progvars, keyvars>>

CallFlush ==
  /\ nops < MaxOps
  /\ \E w \in WriteInputs : Flush(w.args, w.kwargs)
  /\ nops' = nops + 1
  /\ UNCHANGED <<progvars, keyvars>>

CallSave ==
  /\ nops < MaxOps
  /\ \E w \in WriteInputs : Save(w.args, w.kwargs)
  /\ nops' = nops + 1
  /\ UNCHANGED <<progvars, keyvars>>

Restart ==
  /\ nops < MaxOps
  /\ nops > 0
  /\ NewSession
  /\ nops' = nops + 1
  /\ UNCHANGED <<progvars, keyvars>>

Next == CallLoad \/ CallFlush \/ CallSave \/ Restart

Spec == Init /\ [][Next]_vars

\* ------------------------------------------------------------------ SpecProg
\* A program of checkpointed regions, run again by every session.  A region
\* is a call of a wrapped function, CP(func)(*args) (lines 80-100), whose
\* body is the regions nested in it, or the loop of the module docstring
\* (lines 44-53): load, then flush in every iteration.

\* flush calls per loop and session.
MaxIter == 2

\* A wrapped function: the first Atoms among its arguments (or None) and the
\* values it may return, each a tuple or a single value.
Call(ctx, rets) == [kind |-> "call", ctx |-> ctx, rets |-> rets]
Tuple(vals) == [tuple |-> TRUE, vals |-> vals]
Single(v) == [tuple |-> FALSE, vals |-> <<v>>]
Loop == [kind |-> "loop", ctx |-> None, rets |-> {}]

\* The values a loop passes to flush.
LoopInputs ==
  { <<Atoms("Si", "lj"), Plain("x")>>, <<Atoms("Si", "lj"), Plain("y")>> }

NestedProgram ==
  (<<1>> :> Call(Atoms("Si", "emt"), {Tuple(<<Plain("x"), Plain("y")>>),
                                      Tuple(<<Plain("y"), Plain("x")>>)}))
  @@ (<<1, 1>> :> Call(None, {Single(Atoms("Cu", "lj"))}))
  @@ (<<1, 2>> :> Loop)
  @@ (<<2>> :> Call(None, {Single(Plain("x")), Single(Plain("y"))}))

DeepProgram ==
  (<<1>> :> Loop)
  @@ (<<2>> :> Call(Atoms("Si", "emt"), {Tuple(<<Plain("x"), Atoms("Cu", "lj")>>)}))
  @@ (<<2, 1>> :> Call(None, {Single(Plain("x")), Single(Plain("y"))}))
  @@ (<<2, 1, 1>> :> Call(Atoms("Cu", "emt"), {Single(Atoms("Si", "lj"))}))
  @@ (<<2, 2>> :> Call(None, {Single(Plain("y"))}))

CallsProgram ==
  (<<1>> :> Call(None, {Tuple(<<Atoms("Si", "lj"), Plain("x")>>),
                        Tuple(<<Atoms("Cu", "lj"), Plain("x")>>)}))
  @@ (<<1, 1>> :> Call(Atoms("Si", "emt"), {Single(Plain("x")), Single(Plain("y"))}))
  @@ (<<1, 2>> :> Call(None, {Single(Plain("y")), Tuple(<<Plain("y")>>)}))
  @@ (<<2>> :> Call(Atoms("Cu", "emt"), {Tuple(<<Plain("x"), Plain("y")>>)}))
  @@ (<<2, 1>> :> Call(Atoms("Cu", "emt"), {Single(Atoms("Cu", "lj"))}))

Programs == {NestedProgram, DeepProgram, CallsProgram}

ProgBase ==
  [node |-> <<>>, phase |-> "body", done |-> 0, key |-> -1, hit |-> FALSE,
   flushes |-> 0, resumed |-> 0]

NotPersisted == [has |-> FALSE, args |-> <<>>, count |-> 0, tuple |-> FALSE]

InitProg ==
  /\ checkpoint_id = <<0>>
  /\ in_checkpointed_region = FALSE
  /\ db = EmptyBag
  /\ status = "run"
  /\ last = NoCall
  /\ open = <<BaseFrame>>
  /\ written = EmptyDict
  /\ nops = 0
  /\ prog \in Programs
  /\ pstack = <<ProgBase>>
  /\ invoked = [n \in DOMAIN prog |-> 0]
  /\ persisted = [n \in DOMAIN prog |-> NotPersisted]
  /\ cids = <<>>
  /\ mangled = NotMangled

\* The region the program enters next in the scope of frame.
NextChild(frame) == frame.node \o <<frame.done + 1>>

\* The stack once the innermost region is complete.
Completed(stack) ==
  [Front(stack) EXCEPT ![Len(stack) - 1].done = @ + 1]

\* decorated_func, lines 89-92: func is called when load raises NoCheckpoint.
WrapperInvokes(outcome) == outcome = "miss"

\* decorated_func up to the call of func: load(atoms=atoms), then either the
\* restored values are returned or func starts.
PCall ==
  LET child == NextChild(Top(pstack))
  IN  /\ status = "run"
      /\ Top(pstack).phase = "body"
      /\ child \in DOMAIN prog
      /\ prog[child].kind = "call"
      /\ Load(prog[child].ctx)
      /\ pstack' =
           IF WrapperInvokes(last'.outcome)
           THEN Append(pstack, [ProgBase EXCEPT !.node = child, !.key = last'.key])
           ELSE IF last'.outcome = "hit"
                THEN [pstack EXCEPT ![Len(pstack)].done = @ + 1]
                ELSE pstack
      /\ invoked' = IF WrapperInvokes(last'.outcome)
                    THEN [invoked EXCEPT ![child] = @ + 1]
                    ELSE invoked
      /\ UNCHANGED <<nops, prog, persisted, keyvars>>

\* decorated_func, lines 92-99: func returns and its values are saved.
PReturn ==
  LET node == Top(pstack).node
  IN  /\ status = "run"
      /\ Len(pstack) > 1
      /\ Top(pstack).phase = "body"
      /\ NextChild(Top(pstack)) \notin DOMAIN prog
      /\ \E r \in prog[node].rets :
           /\ Save(r.vals, [atoms |-> prog[node].ctx,
                            checkpoint_func_name |-> Plain("func")])
           /\ persisted' =
                IF last'.outcome = "ok"
                THEN [persisted EXCEPT ![node] =
                        [has |-> TRUE, args |-> r.vals, count |-> 1,
                         tuple |-> r.tuple]]
                ELSE persisted
      /\ pstack' = IF last'.outcome = "ok" THEN Completed(pstack) ELSE pstack
      /\ UNCHANGED <<nops, prog, invoked, keyvars>>

\* The loop's load (lines 44-49).
PLoop ==
  LET child == NextChild(Top(pstack))
  IN  /\ status = "run"
      /\ Top(pstack).phase = "body"
      /\ child \in DOMAIN prog
      /\ prog[child].kind = "loop"
      /\ Load(None)
      /\ pstack' =
           IF last'.outcome \in {"hit", "miss"}
           THEN Append(pstack, [ProgBase EXCEPT !.node = child, !.phase = "loop",
                                                !.key = last'.key,
                                                !.hit = (last'.outcome = "hit"),
                                                !.resumed = persisted[child].count])
           ELSE pstack
      /\ UNCHANGED <<nops, prog, invoked, persisted, keyvars>>

\* One iteration of the loop (lines 50-53).
PFlush ==
  LET node == Top(pstack).node
  IN  /\ status = "run"
      /\ Top(pstack).phase = "loop"
      /\ Top(pstack).flushes < MaxIter
      /\ \E w \in LoopInputs :
           /\ Flush(w, EmptyDict)
           /\ persisted' =
                IF last'.outcome = "ok"
                THEN [persisted EXCEPT ![node] =
                        [has |-> TRUE, args |-> w, count |-> Top(pstack).flushes + 1,
                         tuple |-> FALSE]]
                ELSE persisted
      /\ pstack' = [pstack EXCEPT ![Len(pstack)].flushes = @ + 1]
      /\ UNCHANGED <<nops, prog, invoked, keyvars>>

\* The loop ends: converged was restored true, or an iteration set it.
PLoopEnd ==
  /\ status = "run"
  /\ Top(pstack).phase = "loop"
  /\ Top(pstack).hit \/ Top(pstack).flushes >= 1
  /\ pstack' = Completed(pstack)
  /\ UNCHANGED <<checkpoint_id, in_checkpointed_region, db, status, last, open,
                 written, nops, prog, invoked, persisted, keyvars>>

\* The process is stopped at any point and the program is run again.
PKill ==
  /\ last.op # "init"
  /\ NewSession
  /\ pstack' = <<ProgBase>>
  /\ invoked' = [n \in DOMAIN prog |-> 0]
  /\ UNCHANGED <<nops, prog, persisted, keyvars>>

NextProg == PCall \/ PReturn \/ PLoop \/ PFlush \/ PLoopEnd \/ PKill

SpecProg == InitProg /\ [][NextProg]_vars

\* ------------------------------------------------------------------ SpecKey
\* _mangled_checkpoint_id applied to the checkpoint_id lists a Checkpoint can
\* hold when a linear id is computed: [0] (a flush before any load) and the
\* lists of 1 to MaxDepth elements, each from 1 to _max_id - 1.

\* Checkpoint._max_id as the class sets it.
DefaultMaxId == 1000

\* The nested id of the docstring of _mangled_checkpoint_id.
DocPath == <<3, 2, 6>>

RECURSIVE PathsOfLen(_, _)
PathsOfLen(n, m) ==
  IF n = 0 THEN {<<>>}
  ELSE {Append(p, e) : p \in PathsOfLen(n - 1, m), e \in 1..(m - 1)}

\* The lists the tracker builds with _max_id = m, MaxDepth levels deep.
KeyPaths(m) == {<<0>>} \cup UNION {PathsOfLen(n, m) : n \in 1..MaxDepth}

InitKey ==
  /\ checkpoint_id = <<0>>
  /\ in_checkpointed_region = FALSE
  /\ db = EmptyBag
  /\ status = "run"
  /\ last = NoCall
  /\ open = <<BaseFrame>>
  /\ written = EmptyDict
  /\ nops = 0
  /\ prog = EmptyDict
  /\ pstack = <<>>
  /\ invoked = EmptyDict
  /\ persisted = EmptyDict
  /\ cids \in (KeyPaths(max_id) \cup {DocPath}) \X (KeyPaths(max_id) \cup {DocPath})
  /\ mangled = NotMangled

\* _mangled_checkpoint_id of both lists, with the model's _max_id.
Mangle ==
  /\ mangled = NotMangled
  /\ cids[1] \in KeyPaths(max_id) /\ cids[2] \in KeyPaths(max_id)
  /\ mangled' = [max |-> max_id,
                 ids |-> <<MangledCheckpointId(cids[1]), MangledCheckpointId(cids[2])>>]
  /\ UNCHANGED <<checkpoint_id, in_checkpointed_region, db, status, last, open,
                 written, nops, progvars, cids>>

\* _mangled_checkpoint_id of both lists, with _max_id = 1000.
MangleDefault ==
  /\ mangled = NotMangled
  /\ mangled' = [max |-> DefaultMaxId,
                 ids |-> <<LinearKey(cids[1], DefaultMaxId),
                           LinearKey(cids[2], DefaultMaxId)>>]
  /\ UNCHANGED <<checkpoint_id, in_checkpointed_region, db, status, last, open,
                 written, nops, progvars, cids>>

NextKey == Mangle \/ MangleDefault

SpecKey == InitKey /\ [][NextKey]_vars

\* ------------------------------------------------------------------ claims
\* The values a load with context ctx must return for a record written from
\* the positional values args: the values in call order, the first Atoms
\* among them carrying the calculator of ctx (none when ctx is None).
IsPayloadAt(args, i) ==
  IsAtoms(args[i]) /\ \A j \in 1..(i - 1) : ~IsAtoms(args[j])

ExpectedValues(args, ctx) ==
  [i \in 1..Len(args) |->
     IF IsPayloadAt(args, i)
     THEN [args[i] EXCEPT !.calc = IF ctx = None THEN "" ELSE ctx.calc]
     ELSE args[i]]

ExpectedReturn(args, ctx) ==
  [single |-> Len(args) = 1, vals |-> ExpectedValues(args, ctx)]

\* The fields a record written from (args, kwargs) must have, and no others.
ExpectedFields(args, kwargs) ==
  {ValueKey(i - 1) : i \in {j \in 1..Len(args) : ~IsPayloadAt(args, j)}}
    \cup {"checkpoint_atoms_args_index"} \cup ((DOMAIN kwargs) \ {"atoms"})

\* Exactly one payload: one Atoms among the positional values, or none there
\* and one passed as the named argument atoms.
OnePayload(args, kwargs) ==
  LET pos == {i \in 1..Len(args) : IsAtoms(args[i])}
  IN  \/ Cardinality(pos) = 1
      \/ pos = {} /\ "atoms" \in DOMAIN kwargs /\ IsAtoms(kwargs["atoms"])

\* C2 as stated: a load issued as the next call after save(v1..vn) returns
\* (v1..vn), or v1 alone when n = 1.
C2_SaveThenLoadNext ==
  [][(/\ last.op = "save" /\ last.outcome = "ok"
      /\ Len(last.args) >= 1 /\ OnePayload(last.args, last.kwargs)
      /\ last'.op = "load")
     => (/\ last'.outcome = "hit"
         /\ last'.ret = ExpectedReturn(last.args, last'.ctx))]_vars

\* C2, amended: a load that looks up the key at which save(v1..vn) wrote the
\* current record (n >= 1 positional values, exactly one payload, positional
\* or named) returns the positional values in call order, v1 alone when
\* n = 1, the payload carrying the calculator of the load's atoms argument.
\* The load issued as the next call of the same session looks up another key.
C2_RoundTrip ==
  [][/\ (/\ last'.op = "load" /\ last'.outcome = "hit"
         /\ last'.key \in DOMAIN written
         /\ written[last'.key].op = "save"
         /\ Len(written[last'.key].args) >= 1
         /\ OnePayload(written[last'.key].args, written[last'.key].kwargs))
        => last'.ret = ExpectedReturn(written[last'.key].args, last'.ctx)
     /\ (last.op = "save" /\ last.outcome = "ok" /\ last'.op = "load")
        => last'.key # last.key]_vars

C2_Witness ==
  /\ last.op = "load" /\ last.outcome = "hit" /\ last.ctx # None
  /\ last.key \in DOMAIN written
  /\ written[last.key].op = "save"
  /\ Len(written[last.key].args) = 3
  /\ last.ret.vals[2].sym = "Si" /\ last.ret.vals[2].calc = "emt"

\* The payload a record written from (args, kwargs) must carry.
ExpectedPayload(args, kwargs) ==
  LET pos == {i \in 1..Len(args) : IsPayloadAt(args, i)}
  IN  IF pos # {} THEN args[CHOOSE i \in pos : TRUE] ELSE kwargs["atoms"]

\* The database holds at key exactly one row, built from (args, kwargs) alone.
RowIsExactly(store, key, args, kwargs) ==
  /\ NumRows(store, key) = 1
  /\ LET row == GetRow(store, key)
     IN  /\ DOMAIN row.data = ExpectedFields(args, kwargs)
         /\ row.atoms = ExpectedPayload(args, kwargs)
         /\ \A i \in 1..Len(args) :
              IF IsPayloadAt(args, i)
              THEN row.data["checkpoint_atoms_args_index"].num = i - 1
              ELSE row.data[ValueKey(i - 1)] = args[i]
         /\ (\A i \in 1..Len(args) : ~IsAtoms(args[i]))
              => row.data["checkpoint_atoms_args_index"].num = -1
         /\ \A k \in (DOMAIN kwargs) \ {"atoms"} : row.data[k] = kwargs[k]

\* C3 as stated: in an open region, the load issued after flush(x), flush(y)
\* returns the values of y.
C3_FlushFlushLoadNext ==
  [][(/\ Len(open) > 1
      /\ last.op = "flush" /\ last.outcome = "ok" /\ last.nflush >= 2
      /\ last'.op = "load")
     => (/\ last'.outcome = "hit"
         /\ last'.ret = ExpectedReturn(last.args, last'.ctx))]_vars

\* C3, amended: flush(x) then flush(y) in one region leave at the region's
\* key one record built from y alone, no field of x remaining, and a load
\* that looks up that key (the region's load in a restarted session) returns
\* the values of y only.  A load issued in the same session after the
\* flushes looks up another key.
C3_Overwrite ==
  [][/\ (/\ last.op = "flush" /\ last.outcome = "ok"
         /\ last'.op = "flush" /\ last'.outcome = "ok")
        => (/\ last'.key = last.key
            /\ RowIsExactly(db', last.key, last'.args, last'.kwargs))
     /\ (/\ last'.op = "load" /\ last'.outcome = "hit"
         /\ last'.key \in DOMAIN written
         /\ written[last'.key].op = "flush"
         /\ written[last'.key].nflush >= 2)
        => last'.ret = ExpectedReturn(written[last'.key].args, last'.ctx)
     /\ (last.op = "flush" /\ last.outcome = "ok" /\ last'.op = "load")
        => last'.key # last.key]_vars

C3_Witness ==
  /\ last.op = "load" /\ last.outcome = "hit"
  /\ last.key \in DOMAIN written
  /\ written[last.key].op = "flush"
  /\ written[last.key].nflush >= 2
  /\ written[last.key].prior \ ExpectedFields(written[last.key].args,
                                              written[last.key].kwargs) # {}
  /\ last.ret.single

\* The store keys in use.
Keys(store) == {r.checkpoint_id : r \in BagToSet(store)}

\* Every key but key holds in store2 the rows it holds in store1.
OthersUnchanged(store1, store2, key) ==
  \A r \in BagToSet(store1) \cup BagToSet(store2) :
    r.checkpoint_id # key => CopiesIn(r, store1) = CopiesIn(r, store2)

\* The innermost scope is one whose nesting the calls so far determine: it was
\* entered by a load miss (or is the session itself) and no flush was issued
\* since.
Bracketed == ~Top(open).flushed

\* C5: in a region entered by a load miss at path p, the j-th nested region
\* has path p + [j] and its save writes at that path's key; the outer's save
\* drops the nested level and writes at the key of p, the key it uses with no
\* nested call, and leaves every nested record in place.
C5_NestedCollapse ==
  [][/\ (/\ last'.op = "load" /\ last'.outcome \in {"hit", "miss"}
         /\ Len(open) > 1 /\ Bracketed)
        => (/\ last'.path = Top(open).path \o <<Top(open).kids + 1>>
            /\ last'.key = LinearKey(last'.path, max_id))
     /\ (/\ last'.op = "save" /\ last'.outcome = "ok"
         /\ Len(open) > 1 /\ Bracketed)
        => (/\ checkpoint_id' = Top(open).path
            /\ last'.key = LinearKey(Top(open).path, max_id)
            /\ RowIsExactly(db', last'.key, last'.args, last'.kwargs)
            /\ OthersUnchanged(db, db', last'.key)
            /\ \A j \in 1..Top(open).kids :
                 LET nested == LinearKey(Top(open).path \o <<j>>, max_id)
                 IN  nested # last'.key /\
                     (NumRows(db, nested) = 1 => NumRows(db', nested) = 1))]_vars

\* The outer region at [1] was saved after its nested region [1,1] was, and
\* both records are in the store.
C5_Witness ==
  /\ last.op = "save" /\ last.outcome = "ok"
  /\ last.prev.op = "save" /\ last.prev.outcome = "ok"
  /\ last.path = <<1>> /\ checkpoint_id = <<1>>
  /\ last.prev.key = LinearKey(<<1, 1>>, max_id)
  /\ NumRows(db, last.key) = 1 /\ NumRows(db, last.prev.key) = 1
  /\ written[last.prev.key].op = "save"

\* C6: two consecutive regions of one scope, each a load hit or a load miss
\* followed by save, use paths of equal length that differ by one in the last
\* element only; a fresh session uses [1] and then [2].
C6_SiblingIncrement ==
  [][(/\ last'.op = "load" /\ last'.outcome \in {"hit", "miss"} /\ Bracketed)
     => (/\ Top(open).lastkid # <<>>
            => (/\ Len(last'.path) = Len(Top(open).lastkid)
                /\ Front(last'.path) = Front(Top(open).lastkid)
                /\ Last(last'.path) = Last(Top(open).lastkid) + 1)
         /\ (Len(open) = 1 /\ Top(open).kids = 0)
            => (last'.path = <<1>> /\ last'.key = 1)
         /\ (Len(open) = 1 /\ Top(open).kids = 1)
            => (last'.path = <<2>> /\ last'.key = 2
                /\ last'.key # LinearKey(<<1, 1>>, max_id)))]_vars

\* The second top-level region of a session was entered right after the
\* first one was closed by save, and looked up the key of [2].
C6_Witness ==
  /\ last.op = "load" /\ last.outcome \in {"hit", "miss"}
  /\ last.prev.op = "save" /\ last.prev.outcome = "ok" /\ last.prev.key = 1
  /\ last.path = <<2>> /\ last.key = 2
  /\ open[1].kids = 2 /\ ~open[1].flushed

\* The path Enter leaves: a new trailing 1 when the flag is set, the last
\* element incremented otherwise.
EnterPath(c, f) ==
  IF f THEN c \o <<1>>
  ELSE [i \in 1..Len(c) |-> IF i = Len(c) THEN c[i] + 1 ELSE c[i]]

\* C7: a load miss at key k leaves the region open (checkpoint_id as Enter
\* left it, in_checkpointed_region true), and a flush or save issued as the
\* next call writes its record at k.
C7_MissLeavesOpen ==
  [][/\ (last'.op = "load" /\ last'.outcome = "miss")
        => (/\ in_checkpointed_region'
            /\ checkpoint_id' = EnterPath(checkpoint_id, in_checkpointed_region)
            /\ last'.key = LinearKey(checkpoint_id', max_id)
            /\ db' = db /\ status' = "run")
     /\ (/\ last.op = "load" /\ last.outcome = "miss"
         /\ last'.op \in {"flush", "save"} /\ last'.outcome = "ok")
        => (/\ last'.key = last.key
            /\ RowIsExactly(db', last.key, last'.args, last'.kwargs))]_vars

\* A nested load missed and the save issued next wrote at the key it looked up.
C7_Witness ==
  /\ last.op = "save" /\ last.outcome = "ok"
  /\ last.prev.op = "load" /\ last.prev.outcome = "miss"
  /\ last.key = last.prev.key
  /\ Len(checkpoint_id) = 2
  /\ NumRows(db, last.key) = 1

C9_OneRecordPerKey ==
  [][/\ (last'.op \in {"flush", "save"} /\ last'.outcome = "ok" /\ nops' # nops)
        => (/\ RowIsExactly(db', last'.key, last'.args, last'.kwargs)
            /\ OthersUnchanged(db, db', last'.key))
     /\ Keys(db) \subseteq Keys(db')
     /\ \A k \in Keys(db') : NumRows(db', k) = 1]_vars

\* A flush replaced a record with other fields while another key held one.
C9_Witness ==
  /\ last.op = "flush" /\ last.outcome = "ok"
  /\ written[last.key].prior # {}
  /\ written[last.key].prior # ExpectedFields(last.args, last.kwargs)
  /\ Cardinality(Keys(db)) >= 2
  /\ \A k \in Keys(db) : NumRows(db, k) = 1

\* C10: at a fixed depth the k-th Enter succeeds for k < max_id and the
\* max_id-th fails fatally: a load that increments the last element to k
\* overflows exactly when k = max_id, and in a scope with k - 1 regions so
\* far the next load overflows exactly when k = max_id.
C10_Overflow ==
  [][last'.op = "load"
     => (/\ ~in_checkpointed_region
              => (last'.outcome = "overflow" <=> Last(checkpoint_id) + 1 = max_id)
         /\ in_checkpointed_region => last'.outcome # "overflow"
         /\ Bracketed
              => (last'.outcome = "overflow" <=> Top(open).kids + 1 = max_id)
         /\ last'.outcome = "overflow" => (status' = "dead" /\ db' = db)
         /\ last'.outcome # "overflow" => Last(last'.path) < max_id)]_vars

\* The load after max_id - 1 regions of a nested scope failed.
C10_Witness ==
  /\ last.op = "load" /\ last.outcome = "overflow" /\ status = "dead"
  /\ Len(checkpoint_id) = 2
  /\ Top(open).kids = max_id - 1 /\ ~Top(open).flushed

\* C1: in every session of a program of wrapped calls run against the store
\* its earlier sessions left, a wrapped call whose record an earlier session
\* persisted returns the persisted values (the payload carrying the fresh
\* context's calculator) without invoking the function, and a wrapped call
\* whose record is absent invokes the function once and, when it returns,
\* persists its values at the key its load looked up.
C1_WrapperTransparency ==
  [][/\ LET child == NextChild(Top(pstack))
        IN  (/\ last' # last /\ last'.op = "load"
             /\ Top(pstack).phase = "body"
             /\ child \in DOMAIN prog /\ prog[child].kind = "call")
            => /\ persisted[child].has
                    => (/\ last'.outcome = "hit"
                        /\ last'.ret.vals =
                             ExpectedValues(persisted[child].args, prog[child].ctx)
                        /\ invoked' = invoked
                        /\ Len(pstack') = Len(pstack)
                        /\ db' = db)
               /\ ~persisted[child].has
                    => (/\ last'.outcome = "miss"
                        /\ invoked'[child] = 1
                        /\ Top(pstack').node = child
                        /\ db' = db)
     /\ (last' # last /\ last'.op = "save")
        => (/\ last'.outcome = "ok"
            /\ last'.key = Top(pstack).key
            /\ invoked[Top(pstack).node] = 1
            /\ RowIsExactly(db', Top(pstack).key, last'.args, last'.kwargs)
            /\ OthersUnchanged(db, db', Top(pstack).key)
            /\ persisted'[Top(pstack).node].args = last'.args)
     /\ \A n \in DOMAIN prog : invoked'[n] <= 1]_vars

\* A later session: the outer call [1] missed, its nested call [1,1] was
\* restored without running, and the outer call has saved its result.
C1_Witness ==
  /\ last.op = "save" /\ last.outcome = "ok" /\ last.path = <<1>>
  /\ <<1, 1>> \in DOMAIN prog /\ prog[<<1, 1>>].kind = "call"
  /\ invoked[<<1>>] = 1 /\ invoked[<<1, 1>>] = 0
  /\ persisted[<<1, 1>>].has /\ persisted[<<1>>].has
  /\ NumRows(db, LinearKey(<<1, 1>>, max_id)) = 1

\* C4: a loop region stopped after k >= 1 flush calls is resumed by the next
\* session: its load returns the values of the latest flush, and every flush
\* issued afterwards in the region replaces the record at the key that load
\* looked up.
C4_LoopResume ==
  [][/\ LET child == NextChild(Top(pstack))
        IN  (/\ last' # last /\ last'.op = "load"
             /\ Top(pstack).phase = "body"
             /\ child \in DOMAIN prog /\ prog[child].kind = "loop")
            => /\ persisted[child].has
                    => (/\ last'.outcome = "hit"
                        /\ last'.ret = ExpectedReturn(persisted[child].args, None))
               /\ ~persisted[child].has => last'.outcome = "miss"
     /\ (last' # last /\ last'.op = "flush")
        => (/\ last'.outcome = "ok"
            /\ last'.key = Top(pstack).key
            /\ RowIsExactly(db', Top(pstack).key, last'.args, last'.kwargs)
            /\ OthersUnchanged(db, db', Top(pstack).key))]_vars

\* A nested loop stopped after two flush calls was restored by a later
\* session, which has flushed again at the same key.
C4_Witness ==
  /\ Top(pstack).phase = "loop" /\ Top(pstack).hit
  /\ Top(pstack).resumed >= 2 /\ Top(pstack).flushes >= 1
  /\ Len(Top(pstack).node) = 2
  /\ last.op = "flush" /\ last.outcome = "ok" /\ last.key = Top(pstack).key
  /\ written[last.key].prior # {}

\* No flush was called in this session so far.
NoFlushYet == ~open[1].flushed

\* The regions entered by load and not exited, read off the tracker.
OpenRegions(c, f) == Len(c) - 1 + (IF f THEN 1 ELSE 0)

\* C11: in a session of load and save calls without flush, the number of
\* regions entered and not yet exited is len(checkpoint_id) - 1, plus 1 when
\* in_checkpointed_region is set; a save fails with underflow exactly when
\* that number is 0 (the first call of a session included), which is fatal
\* and writes nothing, and a save that supplies a payload succeeds exactly
\* when it is at least 1.
C11_Underflow ==
  [][/\ (NoFlushYet' /\ status' = "run")
        => OpenRegions(checkpoint_id', in_checkpointed_region') = Len(open') - 1
     /\ (last'.op = "save" /\ NoFlushYet)
        => LET n == OpenRegions(checkpoint_id, in_checkpointed_region)
           IN  /\ n = Len(open) - 1
               /\ last'.outcome = "underflow" <=> n = 0
               /\ Encode(last'.args, last'.kwargs).ok
                    => (last'.outcome = "ok" <=> n >= 1)
               /\ last'.outcome = "underflow" => (status' = "dead" /\ db' = db)
               /\ last.op = "init" => last'.outcome = "underflow"]_vars

\* A session without flush: the region entered at [1] was saved, and the
\* save issued next, with no region left to close, failed.
C11_Witness ==
  /\ last.op = "save" /\ last.outcome = "underflow" /\ status = "dead"
  /\ last.prev.op = "save" /\ last.prev.outcome = "ok" /\ last.prev.key = 1
  /\ NoFlushYet
  /\ checkpoint_id = <<>>
  /\ Len(open) = 1 /\ open[1].kids = 1

\* The call just made failed fatally: a load with sibling overflow, a save
\* with underflow, or a flush or save given no payload.
FailedFatally(call) ==
  \/ call.op = "load" /\ call.outcome = "overflow"
  \/ call.op = "save" /\ call.outcome = "underflow"
  \/ call.op \in {"flush", "save"} /\ call.outcome = "nopayload"

\* C12: a load that fails with sibling overflow, a save that fails with
\* underflow and a flush or save that fails for want of a payload leave the
\* database exactly as it was: no row created, deleted or replaced.
C12_NoPartialWrite ==
  [][FailedFatally(last')
     => (/\ db' = db
         /\ status' = "dead"
         /\ \A k \in Keys(db) \cup Keys(db') : Rows(db', k) = Rows(db, k))]_vars

\* A flush without payload failed at a key that holds the record of the
\* flush before it, and that record is still there.
C12_Witness ==
  /\ last.op = "flush" /\ last.outcome = "nopayload" /\ status = "dead"
  /\ last.prev.op = "flush" /\ last.prev.outcome = "ok"
  /\ last.prev.key = last.key
  /\ NumRows(db, last.key) = 1
  /\ written[last.key].op = "flush"
  /\ RowIsExactly(db, last.key, written[last.key].args, written[last.key].kwargs)

\* Every element of p is in 1.._max_id - 1.
ValidPath(p, m) == Len(p) >= 1 /\ \A i \in 1..Len(p) : p[i] >= 1 /\ p[i] < m

\* C13: two different checkpoint_id lists of equal or different length (up
\* to MaxDepth) whose elements are all in 1.._max_id - 1 have different
\* linear ids; so do any two different lists the tracker holds when an id
\* is computed, [0] included.
C13_LinearKeyInjective ==
  (/\ mangled # NotMangled
   /\ cids[1] # cids[2]
   /\ \A i \in 1..2 : cids[i] = <<0>> \/ ValidPath(cids[i], mangled.max))
  => mangled.ids[1] # mangled.ids[2]

\* The ids of [2] and of the nested [1, 1] were computed and differ.
C13_Witness ==
  /\ mangled.max = max_id
  /\ cids = <<<<2>>, <<1, 1>>>>
  /\ mangled.ids[1] = 2 /\ mangled.ids[2] = 1 + max_id

\* C14: a wrapped call restored from its record returns in the shape its
\* function returned when it was computed: the tuple of the same n >= 1
\* values in the same order when the function returned a tuple, the single
\* value when it returned a value that is not a tuple.
C14_SameReturnShape ==
  [][LET child == NextChild(Top(pstack))
     IN  (/\ last' # last /\ last'.op = "load" /\ last'.outcome = "hit"
          /\ Top(pstack).phase = "body"
          /\ child \in DOMAIN prog /\ prog[child].kind = "call"
          /\ persisted[child].has /\ Len(persisted[child].args) >= 1)
         => (/\ last'.ret.vals = ExpectedValues(persisted[child].args, prog[child].ctx)
             /\ last'.ret.single = ~persisted[child].tuple)]_vars

\* C15: in every state a sequence of load, flush and save calls reaches,
\* after a call that failed fatally too, checkpoint_id is non-empty and each
\* of its elements is less than _max_id; once a load of the session has
\* entered a region, each element is at least 1.
C15_PathInvariant ==
  /\ Len(checkpoint_id) >= 1
  /\ \A i \in 1..Len(checkpoint_id) : checkpoint_id[i] < max_id
  /\ open[1].kids >= 1 => \A i \in 1..Len(checkpoint_id) : checkpoint_id[i] >= 1

\* The program is made of wrapped calls only: no region calls flush.
FlushFree(program) == \A n \in DOMAIN program : program[n].kind = "call"

\* C16: in a program of wrapped calls without flush, run again after being
\* stopped at any point, the load of a region looks up the key of the
\* region's position whatever the database holds, and the tracker a
\* completed region leaves (checkpoint_id at the region's position,
\* in_checkpointed_region false) is the same whether its load hit or it
\* missed and its body ran and saved.
C16_KeysIndependentOfStore ==
  [][FlushFree(prog)
     => /\ LET child == NextChild(Top(pstack))
           IN  (last' # last /\ last'.op = "load")
               => (/\ last'.outcome \in {"hit", "miss"}
                   /\ last'.path = child
                   /\ last'.key = LinearKey(child, max_id)
                   /\ last'.outcome = "hit"
                        => (/\ checkpoint_id' = child
                            /\ in_checkpointed_region' = FALSE))
        /\ (last' # last /\ last'.op = "save")
           => (/\ last'.outcome = "ok"
               /\ checkpoint_id' = Top(pstack).node
               /\ in_checkpointed_region' = FALSE)]_vars

\* A later session of a program without flush: region [1] with its nested
\* regions was restored by a hit, and region [2], which no session has
\* completed, was looked up at the key 2 and missed.
C16_Witness ==
  /\ prog # EmptyDict /\ FlushFree(prog)
  /\ <<1, 1>> \in DOMAIN prog
  /\ last.op = "load" /\ last.outcome = "miss" /\ last.path = <<2>> /\ last.key = 2
  /\ last.prev.op = "load" /\ last.prev.outcome = "hit" /\ last.prev.key = 1
  /\ invoked[<<1>>] = 0 /\ persisted[<<1>>].has /\ persisted[<<1, 1>>].has
  /\ ~persisted[<<2>>].has

\* C17: in a region entered by a load miss, once a nested region has been
\* entered and closed (by a hit, or by a miss and its save), a flush writes
\* at the key the enclosing load looked up and leaves the record of every
\* nested region as it was.
C17_FlushAfterNested ==
  [][(/\ last'.op = "flush" /\ last'.outcome = "ok"
      /\ Len(open) > 1 /\ Bracketed /\ Top(open).kids >= 1)
     => (/\ last'.key = LinearKey(Top(open).path, max_id)
         /\ \A j \in 1..Top(open).kids :
              LET nested == LinearKey(Top(open).path \o <<j>>, max_id)
              IN  /\ NumRows(db', nested) = NumRows(db, nested)
                  /\ Rows(db', nested) = Rows(db, nested))]_vars

\* C18: in a region entered by a load miss at key k in which flush was
\* called one or more times and nothing else, at top level or nested, a save
\* that supplies a payload succeeds and writes its record at k.
C18_SaveAfterFlush ==
  [][(/\ last'.op = "save"
      /\ Len(open) > 1 /\ Top(open).kids = 0 /\ Top(open).flushed
      /\ last.op = "flush" /\ last.outcome = "ok"
      /\ Encode(last'.args, last'.kwargs).ok)
     => (/\ last'.outcome = "ok"
         /\ last'.key = LinearKey(Top(open).path, max_id)
         /\ last'.key = last.key
         /\ RowIsExactly(db', last.key, last'.args, last'.kwargs))]_vars

\* C19: a load that fails with sibling overflow, a save that fails with
\* underflow and a flush or save that fails for want of a payload leave
\* checkpoint_id and in_checkpointed_region as they were before the call.
C19_FailureKeepsTracker ==
  [][FailedFatally(last')
     => (/\ checkpoint_id' = checkpoint_id
         /\ in_checkpointed_region' = in_checkpointed_region)]_vars

\* C20: with _max_id = 1000 the linear checkpoint id of the nested id
\* [3, 2, 6] is 600030001.
C20_DocstringExample ==
  (mangled.max = DefaultMaxId /\ cids[1] = DocPath) => mangled.ids[1] = 600030001

====
